---- MODULE Spec2Model ----
(***************************************************************************)
(* Model of the voice-telephony repository:                                *)
(*   src/src/agent.py             start_recording, hangup_call, hang_up    *)
(*   src/src/webhook_server.py    egress_webhook                           *)
(*   src/src/process_recording.py handle_egress_webhook, process_recording *)
(*                                                                         *)
(* The call agent and the webhook receiver are two separate processes      *)
(* with their own module-level configuration; SpecAgent and SpecRec are    *)
(* their specifications.  Each task of the webhook receiver runs on one    *)
(* cooperative event loop, so an action is the code a task executes        *)
(* between two points where it really suspends.                            *)
(***************************************************************************)
EXTENDS Integers, Sequences, FiniteSets, TLC

\* ---------------------------------------------------------------- bounds
MaxRequests == 2
MaxCalls == 2

\* ------------------------------------------------------- python helpers
None == "<None>"

EmptyDict == <<>>

\* dict.get(k, default)
Get(d, k, default) == IF k \in DOMAIN d THEN d[k] ELSE default

\* a dict without key k
Without(d, k) == [x \in (DOMAIN d) \ {k} |-> d[x]]

\* Python truthiness of a string-or-None value
Truthy(v) == v # None /\ v # ""

\* str() as applied by an f-string
Str(v) == IF v = None THEN "None" ELSE v

\* ------------------------------------------------------------- inputs
Rooms == {"test", "room-42"}

TestLocation == "s3://bucket/calls/test.mp3"

ValidInfo(room) ==
    [roomName |-> room, status |-> "EGRESS_COMPLETE",
     fileResults |-> << [location |-> TestLocation] >>]

ValidEvent(room) == [event |-> "egress_ended", egressInfo |-> ValidInfo(room)]

WithInfo(info) == [event |-> "egress_ended", egressInfo |-> info]

\* the complete events, and the complete event of room "test" with one
\* field missing or changed
Events ==
    {ValidEvent(r) : r \in Rooms}
    \cup {WithInfo(Without(ValidInfo("test"), "roomName")),
          Without(ValidEvent("test"), "event"),
          [ValidEvent("test") EXCEPT !.event = "egress_started"],
          Without(ValidEvent("test"), "egressInfo"),
          WithInfo(Without(ValidInfo("test"), "status")),
          WithInfo([ValidInfo("test") EXCEPT !.status = "EGRESS_FAILED"]),
          WithInfo(Without(ValidInfo("test"), "fileResults")),
          WithInfo([ValidInfo("test") EXCEPT !.fileResults = <<>>]),
          WithInfo([ValidInfo("test") EXCEPT !.fileResults = <<EmptyDict>>]),
          WithInfo([ValidInfo("test") EXCEPT !.fileResults = << [location |-> ""] >>])}

\* HTTP request bodies: a JSON object, a JSON array, or bytes that are not JSON
Bodies ==
    {[kind |-> "object", json |-> e] : e \in Events}
    \cup {[kind |-> "array", json |-> EmptyDict],
          [kind |-> "invalid", json |-> EmptyDict]}

NoBody == [kind |-> "none", json |-> EmptyDict]

Providers == {"openai", "google", "deepgram", "whisper"}

WebhookUrls == {"", "https://example.test/transcript"}

Req == 1..MaxRequests

\* file stems under /tmp/livekit-recordings: f"{room_name}.mp3"
Stems == {Str(r) : r \in Rooms \cup {None}}


Range(s) == {s[i] : i \in 1..Len(s)}

Count(s, E) == Cardinality({i \in 1..Len(s) : s[i] \in E})

\* ======================================================================
\* webhook receiver process: webhook_server.py + process_recording.py
\* ======================================================================
VARIABLES
    STT_PROVIDER,            \* module configuration, read at import
    TRANSCRIPT_WEBHOOK_URL,
    nreq,                    \* number of POST /egress-webhook requests received
    body,                    \* body[r]: the body of request r
    response,                \* response[r]: the HTTP response to request r
    pc,                      \* pc[r]: where the background task of request r is
    trace,                   \* trace[r]: the calls made and lines logged by the task
    raised,                  \* raised[r]: the exception the task ended with
    outbox,                  \* outbox[r]: payloads POSTed to TRANSCRIPT_WEBHOOK_URL
    files,                   \* files[stem]: 0, or the task whose download wrote
                             \*   /tmp/livekit-recordings/<stem>.mp3
    tempDir                  \* /tmp/livekit-recordings exists

varsRec == <<STT_PROVIDER, TRANSCRIPT_WEBHOOK_URL, nreq, body, response, pc,
             trace, raised, outbox, files, tempDir>>

\* call agent process (agent.py)
VARIABLES
    ENABLE_RECORDING,        \* module configuration, read at import
    S3_BUCKET,
    S3_REGION,
    S3_ACCESS_KEY,
    S3_SECRET_KEY,
    epc,                     \* epc[c]: where the job of call c is
    egressRequests,          \* egressRequests[c]: start_room_composite_egress requests
    egress_id,               \* egress_id[c]: what start_recording returned
    jobCtx,                  \* jobCtx[c]: what get_job_context() returned to hangup_call
    huTrace,                 \* huTrace[c]: the steps of the current hang_up invocation
    huResult,                \* huResult[c]: what that invocation returned
    huRaised                 \* huRaised[c]: the exception that left it

varsAgent == <<ENABLE_RECORDING, S3_BUCKET, S3_REGION, S3_ACCESS_KEY, S3_SECRET_KEY,
               epc, egressRequests, egress_id, jobCtx, huTrace, huResult, huRaised>>

vars == <<varsRec, varsAgent>>

\* egress_webhook: request.json(), webhook_data.get('event'), create_task,
\* return; any exception gives the error response and no task
egress_webhookNoTask(b) ==
    IF b.kind = "object" /\ "event" \in DOMAIN b.json
    THEN [response |-> "ok", task |-> TRUE]
    ELSE [response |-> "error", task |-> FALSE]

egress_webhook(b) ==
    IF b.kind = "object"
    THEN [response |-> "ok", task |-> TRUE]
    ELSE [response |-> "error", task |-> FALSE]

Discarded(msg) == [invoke |-> FALSE, log |-> msg, s3_path |-> None, room_name |-> None]

\* handle_egress_webhook without the status filter
handle_egress_webhookNoStatus(webhook_data) ==
    LET event_type   == Get(webhook_data, "event", None)
        egress_info  == Get(webhook_data, "egressInfo", EmptyDict)
        room_name    == Get(egress_info, "roomName", None)
        file_results == Get(egress_info, "fileResults", <<>>)
        s3_path      == Get(file_results[1], "location", None)
    IN  IF event_type # "egress_ended" THEN Discarded("Ignoring event")
        ELSE IF file_results = <<>> THEN Discarded("No file results in webhook")
        ELSE IF ~Truthy(s3_path) THEN Discarded("No S3 path in file results")
        ELSE [invoke |-> TRUE, log |-> "Egress complete for room",
              s3_path |-> s3_path, room_name |-> room_name]

\* handle_egress_webhook up to the call of process_recording
handle_egress_webhook(webhook_data) ==
    LET event_type   == Get(webhook_data, "event", None)
        egress_info  == Get(webhook_data, "egressInfo", EmptyDict)
        room_name    == Get(egress_info, "roomName", None)
        status       == Get(egress_info, "status", None)
        file_results == Get(egress_info, "fileResults", <<>>)
        s3_path      == Get(file_results[1], "location", None)
    IN  IF event_type # "egress_ended" THEN Discarded("Ignoring event")
        ELSE IF status # "EGRESS_COMPLETE" THEN Discarded("Egress not complete")
        ELSE IF file_results = <<>> THEN Discarded("No file results in webhook")
        ELSE IF ~Truthy(s3_path) THEN Discarded("No S3 path in file results")
        ELSE [invoke |-> TRUE, log |-> "Egress complete for room",
              s3_path |-> s3_path, room_name |-> room_name]

Transcribers == {"transcribe_openai", "transcribe_google", "transcribe_deepgram"}

\* a dispatch that falls back to a default provider
TranscriberDefault(provider) ==
    IF provider = "google" THEN "transcribe_google"
    ELSE IF provider = "deepgram" THEN "transcribe_deepgram"
    ELSE "transcribe_openai"

\* the if/elif chain on STT_PROVIDER
Transcriber(provider) ==
    IF provider = "openai" THEN "transcribe_openai"
    ELSE IF provider = "google" THEN "transcribe_google"
    ELSE IF provider = "deepgram" THEN "transcribe_deepgram"
    ELSE None

\* transcribe_openai awaits the API call with the file open; transcribe_google
\* and transcribe_deepgram make blocking calls and never suspend
Suspends(t) == t = "transcribe_openai"

Payload(room_name, transcript, s3_path, provider) ==
    [room_name |-> room_name, transcript |-> transcript,
     audio_file |-> s3_path, stt_provider |-> provider]

\* send_transcript_webhook that posts whether or not a URL is configured
send_transcript_webhookAlways(url) ==
    [events |-> <<"post">>, exc |-> None, next |-> "notifying"]

\* send_transcript_webhook up to the awaited client.post
send_transcript_webhook(url) ==
    IF ~Truthy(url)
    THEN [events |-> <<"no_webhook_url">>, exc |-> None, next |-> "done"]
    ELSE [events |-> <<"post">>, exc |-> None, next |-> "notifying"]

\* what follows a transcriber's outcome in process_recording
AfterTranscribe(tr, url) ==
    IF tr = "raise"
    THEN [events |-> <<"transcribe_raised">>, exc |-> "Exception", next |-> "done"]
    ELSE LET n == send_transcript_webhook(url)
         IN  [n EXCEPT !.events = <<"transcript">> \o n.events]

\* process_recording that goes on to transcribe after a failed download
process_recordingNoCheck(dl, provider, tr, url) ==
    LET t == Transcriber(provider)
        d == IF dl = "ok" THEN <<"download", "downloaded">>
             ELSE <<"download", "download_failed">>
    IN  IF t = None
        THEN [events |-> d \o <<"unknown_provider">>, exc |-> None, next |-> "done"]
        ELSE IF tr = "suspend"
        THEN [events |-> d \o <<t>>, exc |-> None, next |-> "transcribing"]
        ELSE LET a == AfterTranscribe(tr, url)
             IN  [a EXCEPT !.events = d \o <<t>> \o a.events]

\* the body of process_recording's try block, from the download to the first
\* point where the task suspends: dl is the download's outcome, tr the
\* transcriber's ("text", "raise", or "suspend" at its awaited API call)
process_recording(dl, provider, tr, url) ==
    IF dl # "ok"
    THEN [events |-> <<"download", "download_failed">>, exc |-> None, next |-> "done"]
    ELSE LET t == Transcriber(provider)
         IN  IF t = None
             THEN [events |-> <<"download", "downloaded", "unknown_provider">>,
                   exc |-> None, next |-> "done"]
             ELSE IF tr = "suspend"
             THEN [events |-> <<"download", "downloaded", t>>,
                   exc |-> None, next |-> "transcribing"]
             ELSE LET a == AfterTranscribe(tr, url)
                  IN  [a EXCEPT !.events = <<"download", "downloaded", t>> \o a.events]

\* a finally block that leaves the file
CleanupKeep(fs, stem) == fs

\* the finally block: if local_path.exists(): local_path.unlink()
Cleanup(fs, stem) == [fs EXCEPT ![stem] = 0]

\* the arguments handle_egress_webhook passes on for request r
Args(r) == handle_egress_webhook(body[r].json)

\* local_path = temp_dir / f"{room_name}.mp3"
LocalStem(r) == Str(Args(r).room_name)

\* download_file: writes local_path on success; a failed download leaves the
\* path as it was or holds a partial file
Download(fs, r, dl) ==
    IF dl = "failed" THEN fs ELSE [fs EXCEPT ![LocalStem(r)] = r]

InitRec ==
    /\ STT_PROVIDER \in Providers
    /\ TRANSCRIPT_WEBHOOK_URL \in WebhookUrls
    /\ nreq = 0
    /\ body = [r \in Req |-> NoBody]
    /\ response = [r \in Req |-> None]
    /\ pc = [r \in Req |-> "none"]
    /\ trace = [r \in Req |-> <<>>]
    /\ raised = [r \in Req |-> None]
    /\ outbox = [r \in Req |-> <<>>]
    /\ files = [s \in Stems |-> 0]
    /\ tempDir = FALSE

\* the configuration is read once at import; the agent is another process
UnchangedConfigRec ==
    /\ UNCHANGED <<STT_PROVIDER, TRANSCRIPT_WEBHOOK_URL>>
    /\ UNCHANGED varsAgent

\* POST /egress-webhook with body b
EgressWebhook(b) ==
    /\ nreq < MaxRequests
    /\ nreq' = nreq + 1
    /\ body' = [body EXCEPT ![nreq + 1] = b]
    /\ response' = [response EXCEPT ![nreq + 1] = egress_webhook(b).response]
    /\ pc' = [pc EXCEPT ![nreq + 1] =
                 IF egress_webhook(b).task THEN "scheduled" ELSE "none"]
    /\ UNCHANGED <<trace, raised, outbox, files, tempDir>>
    /\ UnchangedConfigRec

\* the task runs handle_egress_webhook and one of its early returns is taken
Discard(r) ==
    /\ pc[r] = "scheduled"
    /\ ~Args(r).invoke
    /\ pc' = [pc EXCEPT ![r] = "done"]
    /\ trace' = [trace EXCEPT ![r] = @ \o <<Args(r).log>>]
    /\ UNCHANGED <<nreq, body, response, raised, outbox, files, tempDir>>
    /\ UnchangedConfigRec

\* the task leaves process_recording: the finally block, then return or raise
Finish(r, fs, events, exc) ==
    /\ files' = Cleanup(fs, LocalStem(r))
    /\ trace' = [trace EXCEPT ![r] = @ \o events \o <<"cleanup">>]
    /\ raised' = [raised EXCEPT ![r] = exc]
    /\ pc' = [pc EXCEPT ![r] = "done"]

\* the task goes on to its next suspension point
Continue(r, fs, res) ==
    IF res.next = "done"
    THEN /\ Finish(r, fs, res.events, res.exc)
         /\ UNCHANGED outbox
    ELSE /\ files' = fs
         /\ trace' = [trace EXCEPT ![r] = @ \o res.events]
         /\ pc' = [pc EXCEPT ![r] = res.next]
         /\ outbox' = [outbox EXCEPT ![r] =
                IF res.next = "notifying"
                THEN Append(@, Payload(Args(r).room_name, "text",
                                       Args(r).s3_path, STT_PROVIDER))
                ELSE @]
         /\ UNCHANGED raised

\* temp_dir.mkdir(exist_ok=True) raises, before the try block is entered
MkdirFail(r) ==
    /\ pc[r] = "scheduled"
    /\ Args(r).invoke
    /\ ~tempDir
    /\ pc' = [pc EXCEPT ![r] = "done"]
    /\ trace' = [trace EXCEPT ![r] =
                    @ \o <<Args(r).log, "process_recording", "mkdir_raised">>]
    /\ raised' = [raised EXCEPT ![r] = "OSError"]
    /\ UNCHANGED <<nreq, body, response, outbox, files, tempDir>>
    /\ UnchangedConfigRec

\* the task runs handle_egress_webhook into process_recording, up to the
\* first await that suspends it (or to the end)
ProcessRecording(r, dl, tr) ==
    /\ pc[r] = "scheduled"
    /\ Args(r).invoke
    /\ tr = "suspend" <=> (dl = "ok" /\ Suspends(Transcriber(STT_PROVIDER)) )
    /\ tempDir' = TRUE
    /\ LET res == process_recording(dl, STT_PROVIDER, tr, TRANSCRIPT_WEBHOOK_URL)
           pre == [res EXCEPT !.events =
                       <<Args(r).log, "process_recording">> \o res.events]
       IN  Continue(r, Download(files, r, dl), pre)
    /\ UNCHANGED <<nreq, body, response>>
    /\ UnchangedConfigRec

\* the awaited transcription call of transcribe_openai completes
TranscribeReturn(r, tr) ==
    /\ pc[r] = "transcribing"
    /\ Continue(r, files, AfterTranscribe(tr, TRANSCRIPT_WEBHOOK_URL))
    /\ UNCHANGED <<nreq, body, response, tempDir>>
    /\ UnchangedConfigRec

\* the awaited client.post completes or raises (caught and logged)
PostReturn(r, ok) ==
    /\ pc[r] = "notifying"
    /\ Finish(r, files, <<IF ok THEN "post_ok" ELSE "post_failed">>, None)
    /\ UNCHANGED <<nreq, body, response, outbox, tempDir>>
    /\ UnchangedConfigRec

NextRec ==
    \/ \E b \in Bodies : EgressWebhook(b)
    \/ \E r \in Req : Discard(r)
    \/ \E r \in Req, dl \in {"ok", "failed", "failed_partial"},
          tr \in {"text", "raise", "suspend"} : ProcessRecording(r, dl, tr)
    \/ \E r \in Req, tr \in {"text", "raise"} : TranscribeReturn(r, tr)
    \/ \E r \in Req, ok \in BOOLEAN : PostReturn(r, ok)
    \/ \E r \in Req : MkdirFail(r)


\* ======================================================================
\* call agent process: agent.py
\* ======================================================================
Call == 1..MaxCalls

All(seq) == \A i \in 1..Len(seq) : Truthy(seq[i])

\* start_recording whose credential check leaves out the secret key
start_recordingNoSecret(enabled, bucket, region, access_key, secret_key) ==
    IF ~enabled THEN "return_none"
    ELSE IF ~All(<<bucket, region, access_key>>) THEN "return_none"
    ELSE "request"

\* start_recording up to the awaited start_room_composite_egress
start_recording(enabled, bucket, region, access_key, secret_key) ==
    IF ~enabled THEN "return_none"
    ELSE IF ~All(<<bucket, region, access_key, secret_key>>) THEN "return_none"
    ELSE "request"

\* hangup_call that returns without a request whatever the context
hangup_callSkip(ctx) == <<"no_job_context">>

\* hangup_call up to the awaited delete_room
hangup_call(ctx) ==
    IF ctx = None THEN <<"no_job_context">> ELSE <<"delete_room">>

Success == "Call ended successfully"

InitAgent ==
    /\ ENABLE_RECORDING \in BOOLEAN
    /\ S3_BUCKET \in {"", "recordings"}
    /\ S3_REGION \in {"", "eu-central-1"}
    /\ S3_ACCESS_KEY \in {"", "access"}
    /\ S3_SECRET_KEY \in {"", "secret"}
    /\ epc = [c \in Call |-> "connected"]
    /\ egressRequests = [c \in Call |-> 0]
    /\ egress_id = [c \in Call |-> None]
    /\ jobCtx = [c \in Call |-> None]
    /\ huTrace = [c \in Call |-> <<>>]
    /\ huResult = [c \in Call |-> None]
    /\ huRaised = [c \in Call |-> None]

UnchangedConfigAgent ==
    /\ UNCHANGED <<ENABLE_RECORDING, S3_BUCKET, S3_REGION, S3_ACCESS_KEY, S3_SECRET_KEY>>
    /\ UNCHANGED varsRec

UnchangedHangUp == UNCHANGED <<jobCtx, huTrace, huResult, huRaised>>

\* entrypoint calls start_recording(ctx)
StartRecording(c) ==
    /\ epc[c] = "connected"
    /\ IF start_recording(ENABLE_RECORDING, S3_BUCKET, S3_REGION,
                          S3_ACCESS_KEY, S3_SECRET_KEY) = "request"
       THEN /\ egressRequests' = [egressRequests EXCEPT ![c] = @ + 1]
            /\ epc' = [epc EXCEPT ![c] = "egress_wait"]
       ELSE /\ epc' = [epc EXCEPT ![c] = "session"]
            /\ UNCHANGED egressRequests
    /\ UNCHANGED egress_id
    /\ UnchangedHangUp
    /\ UnchangedConfigAgent

\* start_room_composite_egress returns the egress, or raises (caught: None)
EgressReturn(c, ok) ==
    /\ epc[c] = "egress_wait"
    /\ egress_id' = [egress_id EXCEPT ![c] = IF ok THEN "EG_" \o "id" ELSE None]
    /\ epc' = [epc EXCEPT ![c] = "session"]
    /\ UNCHANGED egressRequests
    /\ UnchangedHangUp
    /\ UnchangedConfigAgent

\* the model invokes the hang_up tool: await asyncio.sleep(0.5)
HangUp(c) ==
    /\ epc[c] \in {"session", "hu_returned", "hu_raised"}
    /\ epc' = [epc EXCEPT ![c] = "sleep1"]
    /\ huTrace' = [huTrace EXCEPT ![c] = <<"sleep">>]
    /\ huResult' = [huResult EXCEPT ![c] = None]
    /\ huRaised' = [huRaised EXCEPT ![c] = None]
    /\ jobCtx' = [jobCtx EXCEPT ![c] = None]
    /\ UNCHANGED <<egressRequests, egress_id>>
    /\ UnchangedConfigAgent

\* the first sleep is over: hangup_call(), where get_job_context() returns
\* ctx; with no context hang_up goes straight on to its second sleep
HangupCall(c, ctx) ==
    /\ epc[c] = "sleep1"
    /\ jobCtx' = [jobCtx EXCEPT ![c] = ctx]
    /\ huTrace' = [huTrace EXCEPT ![c] =
           @ \o hangup_call(ctx)
             \o (IF "delete_room" \in Range(hangup_call(ctx)) THEN <<>> ELSE <<"sleep">>)]
    /\ epc' = [epc EXCEPT ![c] =
           IF "delete_room" \in Range(hangup_call(ctx)) THEN "deleting" ELSE "sleep2"]
    /\ UNCHANGED <<egressRequests, egress_id, huResult, huRaised>>
    /\ UnchangedConfigAgent

\* get_job_context() raises instead: the exception leaves hang_up
HangupCallRaise(c) ==
    /\ epc[c] = "sleep1"
    /\ huTrace' = [huTrace EXCEPT ![c] = @ \o <<"get_job_context_raised">>]
    /\ huRaised' = [huRaised EXCEPT ![c] = "RuntimeError"]
    /\ epc' = [epc EXCEPT ![c] = "hu_raised"]
    /\ UNCHANGED <<egressRequests, egress_id, huResult, jobCtx>>
    /\ UnchangedConfigAgent

\* delete_room returns (await asyncio.sleep(2.0) follows) or raises
DeleteReturn(c, ok) ==
    /\ epc[c] = "deleting"
    /\ IF ok
       THEN /\ huTrace' = [huTrace EXCEPT ![c] = @ \o <<"room_deleted", "sleep">>]
            /\ epc' = [epc EXCEPT ![c] = "sleep2"]
            /\ UNCHANGED huRaised
       ELSE /\ huTrace' = [huTrace EXCEPT ![c] = @ \o <<"delete_raised">>]
            /\ epc' = [epc EXCEPT ![c] = "hu_raised"]
            /\ huRaised' = [huRaised EXCEPT ![c] = "Exception"]
    /\ UNCHANGED <<egressRequests, egress_id, huResult, jobCtx>>
    /\ UnchangedConfigAgent

\* the second sleep is over: return "Call ended successfully"
HangUpReturn(c) ==
    /\ epc[c] = "sleep2"
    /\ huTrace' = [huTrace EXCEPT ![c] = @ \o <<"return">>]
    /\ huResult' = [huResult EXCEPT ![c] = Success]
    /\ epc' = [epc EXCEPT ![c] = "hu_returned"]
    /\ UNCHANGED <<egressRequests, egress_id, huRaised, jobCtx>>
    /\ UnchangedConfigAgent

NextAgent ==
    \/ \E c \in Call : StartRecording(c)
    \/ \E c \in Call, ok \in BOOLEAN : EgressReturn(c, ok)
    \/ \E c \in Call : HangUp(c)
    \/ \E c \in Call, ctx \in {None, "ctx"} : HangupCall(c, ctx)
    \/ \E c \in Call : HangupCallRaise(c)
    \/ \E c \in Call, ok \in BOOLEAN : DeleteReturn(c, ok)
    \/ \E c \in Call : HangUpReturn(c)

\* ======================================================================
\* specifications
\* ======================================================================

\* the configuration of a process whose environment sets none of the variables
DefaultsRec ==
    /\ STT_PROVIDER = "openai"
    /\ TRANSCRIPT_WEBHOOK_URL = ""

DefaultsAgent ==
    /\ ENABLE_RECORDING = FALSE
    /\ S3_BUCKET = ""
    /\ S3_REGION = "eu-central-1"
    /\ S3_ACCESS_KEY = ""
    /\ S3_SECRET_KEY = ""

InitRecProcess == InitRec /\ InitAgent /\ DefaultsAgent

InitAgentProcess == InitAgent /\ InitRec /\ DefaultsRec

\* the webhook receiver process
SpecRec == InitRecProcess /\ [][NextRec]_vars

\* the call agent process
SpecAgent == InitAgentProcess /\ [][NextAgent]_vars

\* ======================================================================
\* properties
\* ======================================================================
Invoked(r) == "process_recording" \in Range(trace[r])

IsObject(r) == body[r].kind = "object"

Info(e) == Get(e, "egressInfo", EmptyDict)

\* ---------------------------------------------------------------- C1
\* C1: whenever a run of process_recording returns or raises, whatever its
\* outcome, the temporary file <room_name>.mp3 of that run does not exist.
C1_TempFileAbsentOnReturn ==
    [][\A r \in Req :
         (pc[r] # "done" /\ pc'[r] = "done" /\ "process_recording" \in Range(trace'[r]))
             => files'[LocalStem(r)] = 0]_vars

\* a run that downloaded the file, whose transcription raised, has ended and
\* the file is gone
C1_Witness ==
    \E r \in Req :
        /\ pc[r] = "done"
        /\ "downloaded" \in Range(trace[r])
        /\ "transcribe_raised" \in Range(trace[r])
        /\ raised[r] # None
        /\ files[LocalStem(r)] = 0

\* ---------------------------------------------------------------- C2
CredentialsIncomplete ==
    S3_BUCKET = "" \/ S3_REGION = "" \/ S3_ACCESS_KEY = "" \/ S3_SECRET_KEY = ""

\* C2: with recording disabled, or enabled with one of the four storage
\* credentials empty, start_recording returns None and never issues the
\* start_room_composite_egress request.
C2_NoEgressWithoutCredentials ==
    (~ENABLE_RECORDING \/ CredentialsIncomplete) =>
        \A c \in Call : /\ egressRequests[c] = 0
                        /\ epc[c] # "egress_wait"
                        /\ egress_id[c] = None

\* recording enabled, only the secret key missing, and start_recording returned
C2_Witness ==
    /\ ENABLE_RECORDING
    /\ S3_BUCKET # "" /\ S3_REGION # "" /\ S3_ACCESS_KEY # ""
    /\ S3_SECRET_KEY = ""
    /\ \E c \in Call : epc[c] = "session" /\ egress_id[c] = None

\* ---------------------------------------------------------------- C3
Rejectable(e) ==
    \/ Get(e, "event", None) # "egress_ended"
    \/ Get(Info(e), "status", None) # "EGRESS_COMPLETE"
    \/ Get(Info(e), "fileResults", <<>>) = <<>>

\* C3: for an event whose type is not egress_ended, or whose status is not
\* EGRESS_COMPLETE, or whose fileResults is missing or empty, process_recording
\* is never invoked: no download, no transcription, no outbound webhook.
C3_FilteredEventsNeverProcessed ==
    \A r \in Req :
        (IsObject(r) /\ Rejectable(body[r].json)) =>
            /\ ~Invoked(r)
            /\ Range(trace[r]) \cap ({"download", "post"} \cup Transcribers) = {}
            /\ outbox[r] = <<>>
            /\ pc[r] \in {"scheduled", "done"}

\* an egress_ended event with status EGRESS_FAILED was handled and discarded
C3_Witness ==
    \E r \in Req :
        /\ IsObject(r)
        /\ Get(body[r].json, "event", None) = "egress_ended"
        /\ Get(Info(body[r].json), "status", None) = "EGRESS_FAILED"
        /\ pc[r] = "done"
        /\ trace[r] = <<"Egress not complete">>

\* ---------------------------------------------------------------- C4
C4Event(e) ==
    /\ Get(e, "event", None) = "egress_ended"
    /\ Get(Info(e), "status", None) = "EGRESS_COMPLETE"
    /\ Get(Info(e), "fileResults", <<>>) = << [location |-> TestLocation] >>

\* C4 as stated: a finished job for an egress_ended / EGRESS_COMPLETE event
\* with one file result at s3://bucket/calls/test.mp3 made exactly one
\* transcription provider invocation and, with a webhook URL configured,
\* exactly one POST whose payload has room_name = "test".
C4_AsStated ==
    \A r \in Req :
        (IsObject(r) /\ C4Event(body[r].json) /\ pc[r] = "done") =>
            /\ Count(trace[r], Transcribers) = 1
            /\ Truthy(TRANSCRIPT_WEBHOOK_URL) =>
                   /\ Len(outbox[r]) = 1
                   /\ outbox[r][1].room_name = "test"

\* C4 amended: such a job makes at most one provider invocation and at most
\* one POST; when the download succeeded, the provider is supported and it
\* returned text, it has made exactly one invocation and, with a webhook URL
\* configured, exactly one POST, whose room_name is the event's
\* egressInfo.roomName; without a transcript or a URL it posts nothing.
C4_OneTranscriptionOnePost ==
    \A r \in Req :
        (IsObject(r) /\ C4Event(body[r].json)) =>
            /\ Count(trace[r], Transcribers) <= 1
            /\ Len(outbox[r]) <= 1
            /\ ("transcript" \notin Range(trace[r]) \/ ~Truthy(TRANSCRIPT_WEBHOOK_URL))
                   => outbox[r] = <<>>
            /\ (pc[r] = "done" /\ "transcript" \in Range(trace[r])) =>
                   /\ Count(trace[r], Transcribers) = 1
                   /\ Truthy(TRANSCRIPT_WEBHOOK_URL) =>
                          /\ Len(outbox[r]) = 1
                          /\ outbox[r][1].room_name
                                 = Get(Info(body[r].json), "roomName", None)
                          /\ outbox[r][1].audio_file = TestLocation

\* the event of room "test" was processed to the end with a URL configured
C4_Witness ==
    \E r \in Req :
        /\ IsObject(r)
        /\ body[r].json = ValidEvent("test")
        /\ pc[r] = "done"
        /\ Truthy(TRANSCRIPT_WEBHOOK_URL)
        /\ Count(trace[r], Transcribers) = 1
        /\ Len(outbox[r]) = 1
        /\ outbox[r][1].room_name = "test"

\* ---------------------------------------------------------------- C5
UnsupportedProvider == STT_PROVIDER \notin {"openai", "google", "deepgram"}

\* C5: with STT_PROVIDER other than openai, google or deepgram, every job
\* aborts without invoking a transcription integration and without sending
\* the outbound transcript webhook.
C5_UnsupportedProviderAborts ==
    UnsupportedProvider =>
        \A r \in Req :
            /\ Range(trace[r]) \cap (Transcribers \cup {"transcript", "post"}) = {}
            /\ outbox[r] = <<>>
            /\ pc[r] \notin {"transcribing", "notifying"}

\* a job downloaded its recording and aborted on the unknown provider
C5_Witness ==
    /\ UnsupportedProvider
    /\ \E r \in Req :
        /\ pc[r] = "done"
        /\ "downloaded" \in Range(trace[r])
        /\ "unknown_provider" \in Range(trace[r])

\* ---------------------------------------------------------------- C6
FieldAbsent(e) ==
    \/ "event" \notin DOMAIN e
    \/ "egressInfo" \notin DOMAIN e
    \/ "roomName" \notin DOMAIN Info(e)
    \/ "status" \notin DOMAIN Info(e)
    \/ "fileResults" \notin DOMAIN Info(e)
    \/ Info(e).fileResults = <<>>
    \/ "location" \notin DOMAIN Info(e).fileResults[1]

\* C6: an event with any of event, egressInfo.roomName, egressInfo.status,
\* egressInfo.fileResults[0].location absent is discarded: process_recording
\* is never invoked for it and its task ends with no error.
C6_AbsentFieldDiscarded ==
    \A r \in Req :
        (IsObject(r) /\ FieldAbsent(body[r].json)) =>
            ~Invoked(r) /\ raised[r] = None

\* ---------------------------------------------------------------- C7
\* C7: every POST whose body is a JSON object is answered {"status": "ok"}
\* with its task only scheduled, not yet run; a response once given never
\* changes, whatever the task does afterwards.
C7_FireAndForget ==
    /\ [](\A r \in Req : (r <= nreq /\ IsObject(r)) => response[r] = "ok")
    /\ [][\A r \in Req :
            /\ (r <= nreq) => response'[r] = response[r]
            /\ (nreq = r - 1 /\ nreq' = r /\ body'[r].kind = "object") =>
                   (pc'[r] = "scheduled" /\ trace'[r] = <<>>)]_vars

\* an accepted request whose task ended with an exception, the response still ok
C7_Witness ==
    \E r \in Req :
        /\ IsObject(r)
        /\ response[r] = "ok"
        /\ pc[r] = "done"
        /\ raised[r] # None

\* ---------------------------------------------------------------- C8
FullHangUp == <<"sleep", "delete_room", "room_deleted", "sleep", "return">>

DeleteRaisedPropagates ==
    \A c \in Call :
        "delete_raised" \in Range(huTrace[c]) =>
            /\ huResult[c] = None
            /\ huRaised[c] # None
            /\ huTrace[c] = <<"sleep", "delete_room", "delete_raised">>

C9_StagesInOrder ==
    \A r \in Req :
        LET s == trace[r] IN
        /\ Count(s, {"download"}) <= 1
        /\ Count(s, Transcribers) <= 1
        /\ Count(s, {"post"}) <= 1
        /\ Count(s, {"cleanup"}) <= 1
        /\ Len(outbox[r]) = Count(s, {"post"})
        /\ \A i \in 1..Len(s) :
            /\ s[i] \in Transcribers => (i > 1 /\ s[i-1] = "downloaded")
            /\ s[i] = "downloaded" => (i > 1 /\ s[i-1] = "download")
            /\ s[i] = "transcript" => (i > 1 /\ s[i-1] \in Transcribers)
            /\ s[i] = "post" => (i > 1 /\ s[i-1] = "transcript")
            /\ s[i] \in {"download_failed", "transcribe_raised", "unknown_provider"} =>
                   \A j \in (i+1)..Len(s) : s[j] = "cleanup"
            /\ s[i] = "cleanup" => (i = Len(s) /\ pc[r] = "done")
        /\ (pc[r] = "done" /\ "download" \in Range(s)) => "cleanup" \in Range(s)
        /\ (pc[r] = "done" /\ "transcribe_raised" \in Range(s)) => raised[r] # None
        /\ pc[r] = "transcribing" => s[Len(s)] \in Transcribers
        /\ pc[r] = "notifying" => s[Len(s)] = "post"

\* a job went through all four stages
C9_Witness ==
    \E r \in Req :
        /\ pc[r] = "done"
        /\ trace[r] = <<"Egress complete for room", "process_recording",
                        "download", "downloaded", "transcribe_openai",
                        "transcript", "post", "post_ok", "cleanup">>

\* ---------------------------------------------------------------- C10
\* C10: while a job stays in its transcribing stage, no other job's download
\* or cleanup overwrites or deletes its local temporary file.
C10_TempFileNotShared ==
    [][\A r \in Req :
         (pc[r] = "transcribing" /\ pc'[r] = "transcribing")
             => files'[LocalStem(r)] = files[LocalStem(r)]]_vars

====
